---- MODULE Spec2Model ----
(***************************************************************************)
(* Model of the boids example (examples/boids/main.rs) and of the SPIR-V   *)
(* blob validator make_spirv (src/util/mod.rs).                            *)
(*                                                                         *)
(* Rust vectors are 0-based, TLA+ sequences 1-based: element i of a Vec is *)
(* element i + 1 of the sequence that models it.                           *)
(***************************************************************************)
EXTENDS Integers, Sequences, FiniteSets, TLC

\* ------------------------------------------------------------------------
\* Bounds of the model
\* ------------------------------------------------------------------------

\* number of frames rendered before the model stops calling render
MaxFrames == 6

\* longest byte slice handed to make_spirv is 4 + MaxTail bytes
MaxTail == 4

\* ------------------------------------------------------------------------
\* Program constants
\* ------------------------------------------------------------------------

NUM_PARTICLES == 1500

PARTICLES_PER_GROUP == 64

MAGIC_NUMBER == 119734787   \* 0x0723_0203

\* ------------------------------------------------------------------------
\* Input domains
\* ------------------------------------------------------------------------

\* outcomes of the rand::random calls that fill initial_particle_data
Seeds == {"s0", "s1", "s2"}

\* sc_desc.format handed to init
Formats == {"Bgra8Unorm", "Bgra8UnormSrgb"}

\* frame.view of the swap chain output handed to render
Views == {"view0", "view1", "view2"}

\* window events the framework forwards to update
WindowEvents == {"CursorMoved", "KeyboardInput"}

\* sc_desc sizes handed to resize
Sizes == {<<640, 480>>, <<800, 600>>}

VARIABLES
    \* fields of struct Example
    particle_bind_groups,
    particle_buffers,
    vertices_buffer,
    compute_pipeline,
    render_pipeline,
    work_group_count,
    frame_num,
    \* the device: contents of the buffers, submitted batches, last draw
    buffer_data,
    submitted,
    presented,
    \* what the last handler handed back to the framework
    returned,
    \* make_spirv: the slice, its address modulo 4, the byte order of the
    \* platform, and the result of the call
    data,
    addr,
    big_endian,
    outcome,
    words

example_vars == <<particle_bind_groups, particle_buffers, vertices_buffer,
                  compute_pipeline, render_pipeline, work_group_count,
                  frame_num>>

device_vars == <<buffer_data, submitted, presented>>

spirv_vars == <<data, addr, big_endian, outcome, words>>

vars == <<particle_bind_groups, particle_buffers, vertices_buffer,
          compute_pipeline, render_pipeline, work_group_count, frame_num,
          buffer_data, submitted, presented, returned,
          data, addr, big_endian, outcome, words>>

\* ------------------------------------------------------------------------
\* The boids example
\* ------------------------------------------------------------------------

\* floor(log2(q)) for q >= 1
RECURSIVE Log2(_)
Log2(q) == IF q <= 1 THEN 0 ELSE 1 + Log2(q \div 2)

WorkGroupCountFloor(n, g) == n \div g

\* ((n as f32) / (g as f32)).ceil() as u32, for 0 <= n < 2^24, 0 < g < 128:
\* both conversions are exact, the quotient q + r/g is rounded to the
\* nearest f32 (24-bit significand, ties to even) and then rounded up to an
\* integer.  The rounded quotient is the integer q only when r/g is at most
\* half a unit in the last place of q; a quotient below 1 never rounds to 0.
WorkGroupCount(n, g) ==
    LET q == n \div g
        r == n % g
    IN  IF r = 0 THEN q
        ELSE IF q >= 1 /\ r * 2^(24 - Log2(q)) <= g THEN q
        ELSE q + 1

\* the storage of a particle buffer: the initial data drawn at init (seed)
\* and the number of times the compute kernel has been applied to it
ParticleData(seed, steps) == [seed |-> seed, steps |-> steps]

\* boids.comp: one simulation step of all particles, as an uninterpreted
\* function of the source contents
Kernel(src) == [src EXCEPT !.steps = @ + 1]

BindGroupAliased(buffers, i) ==
    [b0 |-> "sim_param_buffer",
     b1 |-> buffers[i + 1],
     b2 |-> buffers[i + 1]]

\* the bind group built by iteration i of the second loop of init
BindGroup(buffers, i) ==
    [b0 |-> "sim_param_buffer",
     b1 |-> buffers[i + 1],
     b2 |-> buffers[((i + 1) % 2) + 1]]

ComputeGroupIndexOpposite(f) == (f + 1) % 2

\* index of the bind group the compute pass of frame f is given
ComputeGroupIndex(f) == f % 2

DrawBufferIndexSame(f) == f % 2

\* index of the particle buffer the render pass of frame f is given
DrawBufferIndex(f) == (f + 1) % 2

ComputePass(self_groups, self_pipeline, self_count, f) ==
    << [op |-> "begin_compute_pass"],
       [op |-> "set_pipeline", pipeline |-> self_pipeline],
       [op |-> "set_bind_group", index |-> 0,
        group |-> self_groups[ComputeGroupIndex(f) + 1]],
       [op |-> "dispatch", x |-> self_count, y |-> 1, z |-> 1] >>

RenderPass(self_buffers, self_vertices, self_pipeline, f, view) ==
    << [op |-> "begin_render_pass", attachment |-> view,
        load_op |-> "Clear", store_op |-> "Store"],
       [op |-> "set_pipeline", pipeline |-> self_pipeline],
       [op |-> "set_vertex_buffers", start |-> 0,
        buffers |-> << self_buffers[DrawBufferIndex(f) + 1], self_vertices >>],
       [op |-> "draw", vertices |-> <<0, 3>>,
        instances |-> <<0, NUM_PARTICLES>>] >>

EncodeFrameDrawFirst(view) ==
    RenderPass(particle_buffers, vertices_buffer, render_pipeline,
               frame_num, view)
    \o ComputePass(particle_bind_groups, compute_pipeline, work_group_count,
                   frame_num)

\* the command buffer render records: the compute pass, then the render pass
EncodeFrame(view) ==
    ComputePass(particle_bind_groups, compute_pipeline, work_group_count,
                frame_num)
    \o RenderPass(particle_buffers, vertices_buffer, render_pipeline,
                  frame_num, view)

NextFrameNumSkip(f) == f + 2

\* self.frame_num += 1
NextFrameNum(f) == f + 1

\* The device executing one command: a dispatch runs the kernel from the
\* buffer bound at slot 1 into the buffer bound at slot 2 of the bind group
\* set before it; a draw reads the per-instance vertex buffer set before it.
\* st = [mem, group, vbuf, shown]
ExecuteCommand(st, c) ==
    CASE c.op = "set_bind_group" -> [st EXCEPT !.group = c.group]
      [] c.op = "dispatch" ->
            [st EXCEPT !.mem = [st.mem EXCEPT ![st.group.b2] =
                                    Kernel(st.mem[st.group.b1])]]
      [] c.op = "set_vertex_buffers" -> [st EXCEPT !.vbuf = c.buffers[1]]
      [] c.op = "draw" -> [st EXCEPT !.shown = st.mem[st.vbuf]]
      [] OTHER -> st

RECURSIVE Execute(_, _)
Execute(st, cmds) ==
    IF cmds = <<>> THEN st
    ELSE Execute(ExecuteCommand(st, Head(cmds)), Tail(cmds))

\* Example::init
init(format, seed) ==
    LET buffers == << "particle_buffer_0", "particle_buffer_1" >>
    IN  /\ particle_buffers = buffers
        /\ particle_bind_groups = << BindGroup(buffers, 0), BindGroup(buffers, 1) >>
        /\ vertices_buffer = "vertices_buffer"
        /\ compute_pipeline = [kind |-> "compute", module |-> "boids.comp"]
        /\ render_pipeline = [kind |-> "render", format |-> format]
        /\ work_group_count = WorkGroupCount(NUM_PARTICLES, PARTICLES_PER_GROUP)
        /\ frame_num = 0
        /\ buffer_data = [b \in {buffers[1], buffers[2]} |-> ParticleData(seed, 0)]
        /\ submitted = 0
        /\ presented = ParticleData(seed, 0)
        /\ returned = [handler |-> "init", some |-> FALSE, commands |-> <<>>]

\* Example::update
update(event) ==
    /\ returned' = [handler |-> "update", some |-> FALSE, commands |-> <<>>]
    /\ UNCHANGED <<example_vars, device_vars, spirv_vars>>

resizeRebuilding(size) ==
    /\ returned' = [handler |-> "resize", some |-> FALSE, commands |-> <<>>]
    /\ particle_bind_groups' = << particle_bind_groups[2], particle_bind_groups[1] >>
    /\ UNCHANGED <<particle_buffers, vertices_buffer, compute_pipeline,
                   render_pipeline, work_group_count, frame_num,
                   device_vars, spirv_vars>>

\* Example::resize
resize(size) ==
    /\ returned' = [handler |-> "resize", some |-> FALSE, commands |-> <<>>]
    /\ UNCHANGED <<example_vars, device_vars, spirv_vars>>

\* Example::render, and the framework submitting the returned command
\* buffer to the queue before the next event is handled
render(view) ==
    /\ frame_num < MaxFrames
    /\ LET cmds == EncodeFrame(view)
           st == Execute([mem |-> buffer_data, group |-> particle_bind_groups[1],
                          vbuf |-> particle_buffers[1], shown |-> presented],
                         cmds)
       IN  /\ returned' = [handler |-> "render", some |-> TRUE, commands |-> cmds]
           /\ buffer_data' = st.mem
           /\ presented' = st.shown
    /\ frame_num' = NextFrameNum(frame_num)
    /\ submitted' = submitted + 1
    /\ UNCHANGED <<particle_bind_groups, particle_buffers, vertices_buffer,
                   compute_pipeline, render_pipeline, work_group_count,
                   spirv_vars>>

\* ------------------------------------------------------------------------
\* make_spirv
\* ------------------------------------------------------------------------

\* the bytes of MAGIC_NUMBER
MagicBytes == {3, 2, 35, 7}

\* bytes of the words that follow the first one
TailBytes == {0, 127}

\* the slices handed to make_spirv: up to 4 bytes drawn from the bytes of
\* the magic number, followed, when there are 4, by up to MaxTail more
InputData ==
    UNION { { h \o t : h \in [1..hl -> MagicBytes], t \in [1..tl -> TailBytes] } :
            <<hl, tl>> \in { p \in (0..4) \X (0..MaxTail) : p[2] > 0 => p[1] = 4 } }

FromNeBytesLittle(b, be) ==
    b[1] + b[2] * 2^8 + b[3] * 2^16 + b[4] * 2^24

\* the u32 whose in-memory representation is the 4 bytes b on a platform of
\* the given byte order
FromNeBytes(b, be) ==
    IF be THEN b[1] * 2^24 + b[2] * 2^16 + b[3] * 2^8 + b[4]
    ELSE b[1] + b[2] * 2^8 + b[3] * 2^16 + b[4] * 2^24

\* <[u8]>::align_to::<u32> on a slice d that starts at an address congruent
\* to a modulo 4: the bytes before the first aligned address, the aligned
\* bytes that make up whole words, and the bytes left over
\* (the split core::slice::align_to computes at run time: the prefix ends at
\* the first aligned address, or is the whole slice when that address lies
\* beyond its end; the middle part is as long as possible)
AlignTo(d, a) ==
    LET offset == (4 - (a % 4)) % 4
    IN  IF offset > Len(d)
        THEN [pre |-> d, mid |-> <<>>, post |-> <<>>]
        ELSE LET rest == SubSeq(d, offset + 1, Len(d))
                 us_len == Len(rest) \div 4
             IN  [pre |-> SubSeq(d, 1, offset),
                  mid |-> SubSeq(rest, 1, 4 * us_len),
                  post |-> SubSeq(rest, 4 * us_len + 1, Len(rest))]

\* the middle part of align_to seen as a slice of u32
Words(mid, be) ==
    [i \in 1..(Len(mid) \div 4) |-> FromNeBytes(SubSeq(mid, 4 * i - 3, 4 * i), be)]

MagicCheckSkipEmpty(w) ==
    IF w # <<>> /\ w[1] # MAGIC_NUMBER THEN "wrong_magic_word" ELSE "SpirV"

\* assert_eq!(words[0], MAGIC_NUMBER, ...): indexing an empty slice panics
\* before the comparison
MagicCheck(w) ==
    IF Len(w) = 0 THEN "index_out_of_bounds"
    ELSE IF w[1] # MAGIC_NUMBER THEN "wrong_magic_word"
    ELSE "SpirV"

\* the result of make_spirv: the panic it raises, or SpirV and the words
SpirvResult(d, a, be) ==
    LET s == AlignTo(d, a)
        w == Words(s.mid, be)
        o == IF s.pre # <<>> THEN "offset_not_aligned"
             ELSE IF s.post # <<>> THEN "size_not_aligned"
             ELSE MagicCheck(w)
    IN  [outcome |-> o, words |-> IF o = "SpirV" THEN w ELSE <<>>]

\* make_spirv
make_spirv ==
    /\ outcome = "pending"
    /\ LET r == SpirvResult(data, addr, big_endian)
       IN  /\ outcome' = r.outcome
           /\ words' = r.words
    /\ UNCHANGED <<data, addr, big_endian, example_vars, device_vars, returned>>

SpirvIdle ==
    /\ data = <<>>
    /\ addr = 0
    /\ big_endian = FALSE
    /\ outcome = "pending"
    /\ words = <<>>

Init ==
    /\ \E format \in Formats, seed \in Seeds : init(format, seed)
    /\ SpirvIdle

Next ==
    \/ \E view \in Views : render(view)
    \/ \E event \in WindowEvents : update(event)
    \/ \E size \in Sizes : resize(size)

Spec == Init /\ [][Next]_vars

InitSpirv ==
    /\ init("Bgra8Unorm", "s0")
    /\ data \in InputData
    /\ addr \in 0..3
    /\ big_endian \in BOOLEAN
    /\ outcome = "pending"
    /\ words = <<>>

NextSpirv == make_spirv

SpecSpirv == InitSpirv /\ [][NextSpirv]_vars

\* ------------------------------------------------------------------------
\* Properties of the boids example (checked under Spec)
\* ------------------------------------------------------------------------

\* the commands of a command buffer with the given name, in order
Ops(cmds, name) == SelectSeq(cmds, LAMBDA c : c.op = name)

\* position of the first command with the given name (0 when there is none)
Pos(cmds, name) ==
    IF \E i \in 1..Len(cmds) : cmds[i].op = name
    THEN CHOOSE i \in 1..Len(cmds) :
            /\ cmds[i].op = name
            /\ \A j \in 1..(i - 1) : cmds[j].op # name
    ELSE 0

\* the bind group given to the compute pass of a command buffer
GroupOf(cmds) == Ops(cmds, "set_bind_group")[1].group

\* the per-instance vertex buffer given to the render pass of a command buffer
InstanceBufferOf(cmds) == Ops(cmds, "set_vertex_buffers")[1].buffers[1]

\* a step of the model that is a call of render
IsRender == submitted' = submitted + 1

\* C1: the render call made with frame counter f gives the compute pass bind
\* group f % 2 and the draw particle buffer (f + 1) % 2 as per-instance vertex
\* buffer, and the two indices differ.
C1_ParityIndices ==
    [][IsRender =>
        LET f == frame_num
            cmds == returned'.commands
        IN  /\ GroupOf(cmds) = particle_bind_groups[(f % 2) + 1]
            /\ GroupOf(cmds) # particle_bind_groups[((f + 1) % 2) + 1]
            /\ InstanceBufferOf(cmds) = particle_buffers[((f + 1) % 2) + 1]
            /\ InstanceBufferOf(cmds) # particle_buffers[(f % 2) + 1]
            /\ f % 2 # (f + 1) % 2]_vars

C1_Witness ==
    /\ returned.handler = "render"
    /\ frame_num >= 3

\* C2: bind group i binds particle buffer i at slot 1 and the other buffer
\* (i + 1) % 2 at slot 2; the buffer a frame draws is the slot-2 buffer of the
\* bind group of that frame and never its slot-1 buffer.  Frame 0 computes
\* from buffer 0 into buffer 1 and draws buffer 1, frame 1 computes from
\* buffer 1 into buffer 0 and draws buffer 0.
C2_DrawReadsDestination ==
    [][/\ \A i \in {0, 1} :
            /\ particle_bind_groups[i + 1].b1 = particle_buffers[i + 1]
            /\ particle_bind_groups[i + 1].b2 = particle_buffers[((i + 1) % 2) + 1]
            /\ particle_bind_groups[i + 1].b1 # particle_bind_groups[i + 1].b2
       /\ IsRender =>
            LET f == frame_num
                cmds == returned'.commands
                g == GroupOf(cmds)
            IN  /\ g = particle_bind_groups[(f % 2) + 1]
                /\ InstanceBufferOf(cmds) = g.b2
                /\ InstanceBufferOf(cmds) # g.b1
                /\ f = 0 => /\ g.b1 = particle_buffers[1]
                            /\ g.b2 = particle_buffers[2]
                            /\ InstanceBufferOf(cmds) = particle_buffers[2]
                /\ f = 1 => /\ g.b1 = particle_buffers[2]
                            /\ g.b2 = particle_buffers[1]
                            /\ InstanceBufferOf(cmds) = particle_buffers[1]]_vars

C2_Witness ==
    /\ returned.handler = "render"
    /\ frame_num = 2
    /\ InstanceBufferOf(returned.commands) = particle_buffers[1]

\* C3: the command buffer of every render call holds exactly one dispatch and
\* exactly one draw (3 vertices, NUM_PARTICLES instances), the dispatch before
\* the draw, and each call hands back exactly one command buffer.
C3_OneDispatchThenOneDraw ==
    returned.handler = "render" =>
        LET cmds == returned.commands
        IN  /\ returned.some
            /\ Len(Ops(cmds, "dispatch")) = 1
            /\ Len(Ops(cmds, "draw")) = 1
            /\ Pos(cmds, "dispatch") < Pos(cmds, "draw")
            /\ Pos(cmds, "begin_compute_pass") < Pos(cmds, "dispatch")
            /\ Pos(cmds, "dispatch") < Pos(cmds, "begin_render_pass")
            /\ Ops(cmds, "draw")[1].vertices = <<0, 3>>
            /\ Ops(cmds, "draw")[1].instances = <<0, NUM_PARTICLES>>

C3_Witness ==
    /\ returned.handler = "render"
    /\ frame_num >= 2
    /\ Len(returned.commands) = 8

\* c is the smallest integer with c * g >= n
IsCeilDiv(c, n, g) ==
    /\ c * g >= n
    /\ (c - 1) * g < n

\* C6: the work-group count computed at init and used by the dispatch of every
\* frame is the smallest c with c * PARTICLES_PER_GROUP >= NUM_PARTICLES, which
\* is 24; for 4 particles in groups of 64 the computation gives 1.
C6_WorkGroupCountIsCeil ==
    /\ IsCeilDiv(work_group_count, NUM_PARTICLES, PARTICLES_PER_GROUP)
    /\ work_group_count = 24
    /\ WorkGroupCount(4, 64) = 1
    /\ returned.handler = "render" =>
        LET d == Ops(returned.commands, "dispatch")[1]
        IN  /\ d.x = work_group_count
            /\ d.y = 1
            /\ d.z = 1
            /\ d.x * PARTICLES_PER_GROUP >= NUM_PARTICLES

C6_Witness ==
    /\ returned.handler = "render"
    /\ frame_num >= 2
    /\ Ops(returned.commands, "dispatch")[1].x = 24

\* C7: the frame counter is 0 after init, every render call uses the counter
\* equal to the number of earlier render calls and then increases it by
\* exactly 1; update and resize leave it alone.
C7_FrameCounter ==
    [][/\ frame_num = submitted
       /\ IsRender =>
            /\ frame_num' = frame_num + 1
            /\ GroupOf(returned'.commands) = particle_bind_groups[(submitted % 2) + 1]
       /\ ~IsRender => frame_num' = frame_num
       /\ frame_num' = submitted']_vars

C7_Witness ==
    /\ frame_num = 3
    /\ submitted = 3
    /\ returned.handler \in {"update", "resize"}

\* C8: after init no operation changes the bind groups, the particle buffer
\* handles, the triangle vertex buffer, the pipelines or the work-group count;
\* update and resize change neither the frame counter nor any buffer contents.
C8_ConfigurationFrozen ==
    [][/\ particle_bind_groups' = particle_bind_groups
       /\ particle_buffers' = particle_buffers
       /\ vertices_buffer' = vertices_buffer
       /\ compute_pipeline' = compute_pipeline
       /\ render_pipeline' = render_pipeline
       /\ work_group_count' = work_group_count
       /\ DOMAIN buffer_data' = DOMAIN buffer_data
       /\ ~IsRender => /\ frame_num' = frame_num
                       /\ buffer_data' = buffer_data
                       /\ presented' = presented
                       /\ submitted' = submitted]_vars

C8_Witness ==
    /\ returned.handler = "resize"
    /\ frame_num >= 2

\* C10: both particle buffers start with the same data; the compute source of
\* a frame is the compute destination of the frame before it; after k >= 1
\* render calls buffer k % 2 holds the data after exactly k steps, the other
\* buffer the data after k - 1 steps, and the last draw showed k steps.
C10_PingPongContinuity ==
    LET k == submitted
        cur == buffer_data[particle_buffers[(k % 2) + 1]]
        old == buffer_data[particle_buffers[((k + 1) % 2) + 1]]
    IN  /\ cur.seed = old.seed
        /\ \A f \in {0, 1} :
              particle_bind_groups[((f + 1) % 2) + 1].b1 = particle_bind_groups[(f % 2) + 1].b2
        /\ k = 0 => cur.steps = 0 /\ old.steps = 0
        /\ k >= 1 => /\ cur.steps = k
                     /\ old.steps = k - 1
                     /\ presented = cur

C10_Witness ==
    /\ submitted >= 4
    /\ presented.steps = submitted
    /\ returned.handler = "render"

\* ------------------------------------------------------------------------
\* Properties of make_spirv (checked under SpecSpirv)
\* ------------------------------------------------------------------------

\* the in-memory representation of the u32 w
ToNeBytes(w, be) ==
    LET b0 == w % 2^8
        b1 == (w \div 2^8) % 2^8
        b2 == (w \div 2^16) % 2^8
        b3 == (w \div 2^24) % 2^8
    IN  IF be THEN <<b3, b2, b1, b0>> ELSE <<b0, b1, b2, b3>>

\* the bytes of a slice of u32, read back in the byte order of the platform
RECURSIVE BytesOf(_, _)
BytesOf(ws, be) ==
    IF ws = <<>> THEN <<>>
    ELSE ToNeBytes(Head(ws), be) \o BytesOf(Tail(ws), be)

\* the 4 bytes that hold MAGIC_NUMBER on a platform of the given byte order
NativeMagic(be) == IF be THEN <<7, 35, 2, 3>> ELSE <<3, 2, 35, 7>>

\* the slice starts with the magic word
StartsWithMagic == Len(data) >= 4 /\ SubSeq(data, 1, 4) = NativeMagic(big_endian)

\* C4: the checks are made in the order offset, size, magic and the call
\* fails with the failure of the first one that does not hold: a misaligned
\* start always gives the offset failure, an aligned slice whose length is
\* not a multiple of 4 the size failure, an aligned slice of 4 * k bytes
\* (k >= 1) with a wrong first word the magic failure; the call returns only
\* when all three hold.
C4_CheckOrder ==
    outcome # "pending" =>
        /\ addr # 0 => outcome = "offset_not_aligned"
        /\ (addr = 0 /\ Len(data) % 4 # 0) => outcome = "size_not_aligned"
        /\ (addr = 0 /\ Len(data) % 4 = 0 /\ Len(data) >= 4 /\ ~StartsWithMagic)
              => outcome = "wrong_magic_word"
        /\ outcome = "SpirV" => (addr = 0 /\ Len(data) % 4 = 0 /\ StartsWithMagic)

\* C5: for an aligned slice of 4 * k bytes (k >= 1) that starts with the magic
\* word, make_spirv returns exactly k words whose bytes, read back in native
\* order, are the bytes of the slice.
C5_RoundTrip ==
    (outcome # "pending" /\ addr = 0 /\ Len(data) % 4 = 0 /\ StartsWithMagic) =>
        /\ outcome = "SpirV"
        /\ Len(words) * 4 = Len(data)
        /\ BytesOf(words, big_endian) = data

C5_Witness ==
    /\ outcome = "SpirV"
    /\ big_endian
    /\ Len(words) = 2
    /\ words[2] \notin {0, words[1]}
    /\ BytesOf(words, big_endian) = data

\* C9: for an empty slice make_spirv passes the offset and the size check and
\* fails when it reads the first word: it never returns, and the failure is
\* neither the offset nor the size failure.
C9_EmptyInput ==
    (outcome # "pending" /\ data = <<>>) =>
        /\ AlignTo(data, addr).pre = <<>>
        /\ AlignTo(data, addr).post = <<>>
        /\ outcome = "index_out_of_bounds"
        /\ outcome \notin {"SpirV", "offset_not_aligned", "size_not_aligned"}
        /\ words = <<>>

C9_Witness ==
    /\ data = <<>>
    /\ addr = 0
    /\ outcome = "index_out_of_bounds"

====
